---- MODULE Spec2Model ----
(***************************************************************************)
(* Model of main.py: a FastAPI application with one route,                 *)
(* POST /detect-objects, that validates an uploaded image, runs it through *)
(* two YOLO models held in module globals and returns per-class counts.    *)
(*                                                                         *)
(* The coroutines run on one asyncio event loop: a coroutine keeps the     *)
(* loop until it awaits something that suspends.  The only such place in   *)
(* a request is `await file.read()` (line 134); `running` holds the        *)
(* request that currently owns the loop (0: nobody).  The lifespan's       *)
(* startup and shutdown blocks hold no await, so no request step is taken  *)
(* while `life` is inside one of them.                                     *)
(*                                                                         *)
(* The YOLO models are external: a call either raises or returns a list of *)
(* Results objects (one per image passed, line 84), each carrying the      *)
(* class ids of its boxes.  An I/O error of file.read() is not modelled.   *)
(***************************************************************************)
EXTENDS Integers, Sequences, FiniteSets, TLC

\* ---------------------------------------------------------------- bounds
NumReq == 2     \* request slots that can be in flight together
MaxDet == 3     \* boxes one model reports for one image

Requests == 1..NumReq

\* ------------------------------------------------------ program constants
ConfThreshTenths == 5          \* conf_thresh = 0.5, in tenths

None == "None"
FlowerHandle == "YOLO(custom_model/best.pt)"
CocoHandle == "YOLO(yolov8s.pt)"

\* model.names of the two models: class id i is entry i+1.
FlowerNames == <<"rose", "vase">>
CocoNames == <<"person", "vase">>

ClassIds(names) == 0..(Len(names) - 1)

VARIABLES
    conf_thresh,        \* module global, line 13
    model_flower,       \* module global, line 16
    model_coco_yolo8,   \* module global, line 17
    life,               \* position of the lifespan coroutine
    load_error,         \* the step whose exception reached line 60 ("none")
    running,            \* request owning the event loop, 0 when it is free
    pc,                 \* per request: position in detect_objects
    file,               \* per request: the UploadFile
    contents,           \* per request: verify_image's local `contents`
    decoded,            \* per request: Image.open ran on the bytes (line 138)
    img_content,        \* per request: detect_objects' local, line 165
    calls_flower,       \* per request: the calls made to model_flower
    calls_coco,         \* per request: the calls made to model_coco_yolo8
    results_flower,     \* per request: local of line 85
    results_yolo8,      \* per request: local of line 86
    response            \* per request: what detect_objects returned or raised

globals == <<conf_thresh, model_flower, model_coco_yolo8>>
locals == <<pc, file, contents, decoded, img_content, calls_flower, calls_coco,
            results_flower, results_yolo8, response>>
vars == <<conf_thresh, model_flower, model_coco_yolo8, life, load_error, running,
          pc, file, contents, decoded, img_content, calls_flower, calls_coco,
          results_flower, results_yolo8, response>>

\* --------------------------------------------------------------- uploads
IMAGE_PREFIX == <<"i", "m", "a", "g", "e", "/">>

\* str.startswith
StartsWith(s, prefix) ==
    /\ Len(s) >= Len(prefix)
    /\ SubSeq(s, 1, Len(prefix)) = prefix

\* UploadFile.content_type is None when the part declares no Content-Type.
DeclaredTypes ==
    { <<"i", "m", "a", "g", "e", "/", "p", "n", "g">>,
      <<"i", "m", "a", "g", "e">>,
      <<"t", "e", "x", "t", "/", "p", "l", "a", "i", "n">>,
      <<"I", "m", "a", "g", "e", "/", "p", "n", "g">>,
      <<>> }

ContentTypes ==
    { [is_none |-> TRUE, chars |-> <<>>] }
        \cup { [is_none |-> FALSE, chars |-> t] : t \in DeclaredTypes }

Uploads ==
    [content_type : ContentTypes, data : {"valid_image", "corrupt"}]

NoFile == [content_type |-> [is_none |-> TRUE, chars |-> <<>>], data |-> "none"]

\* ------------------------------------------------------------- responses
NoResponse == [status |-> 0, body |-> "none", detail |-> "", objects |-> <<>>]

\* {"objects": [...]}
OkArray(objs) ==
    [status |-> 200, body |-> "array", detail |-> "", objects |-> objs]

\* {"objects": "No detections found."}
OkNoDetections ==
    [status |-> 200, body |-> "string", detail |-> "No detections found.",
     objects |-> <<>>]

HTTPException(status, detail) ==
    [status |-> status, body |-> "error", detail |-> detail, objects |-> <<>>]

InvalidFileType == HTTPException(400, "Invalid file type. Only image files are allowed.")
CouldNotProcess == HTTPException(400, "Could not process image")
ModelsNotLoadedError ==
    HTTPException(500, "Object detection models are not loaded. Server might be misconfigured.")
InternalServerError == HTTPException(500, "An internal server error occurred")
UnexpectedError == HTTPException(500, "An unexpected error occurred")

\* ---------------------------------------------------------- model calls
BoundedSeq(S, n) == UNION { [1..k -> S] : k \in 0..n }

\* What a call model(img, conf=...) can do: raise, or return a list of Results
\* (empty, or one Results for the one image) whose boxes.cls are class ids.
ModelOutcomes(names) ==
    { [raised |-> TRUE, results |-> <<>>] }
        \cup { [raised |-> FALSE, results |-> <<>>] }
        \cup { [raised |-> FALSE, results |-> <<cls>>] :
                    cls \in BoundedSeq(ClassIds(names), MaxDet) }

\* ------------------------------------------------------ the Counter loops
HasKey(c, name) == \E i \in DOMAIN c : c[i].name = name

KeyIndex(c, name) == CHOOSE i \in DOMAIN c : c[i].name = name

\* Mutant of CounterIncr: a key already present is not incremented.
CounterIncr_noIncrement(c, name) ==
    IF HasKey(c, name)
    THEN c
    ELSE Append(c, [name |-> name, count |-> 1])

\* Counter[name] += 1: a missing key is inserted last, an existing one keeps
\* its place.
CounterIncr(c, name) ==
    IF HasKey(c, name)
    THEN [c EXCEPT ![KeyIndex(c, name)].count = @ + 1]
    ELSE Append(c, [name |-> name, count |-> 1])

RECURSIVE CountLoop(_, _, _)
\* for class_id in detected_class_ids: count[class_names[int(class_id)]] += 1
CountLoop(ids, names, c) ==
    IF ids = <<>>
    THEN c
    ELSE CountLoop(Tail(ids), names, CounterIncr(c, names[Head(ids) + 1]))

\* if results: result = results[0]; ... ; else the Counter stays empty
CountResults(results, names) ==
    IF results # <<>> THEN CountLoop(results[1], names, <<>>) ELSE <<>>

\* [{"object_name": name, "object_count": count} for name, count in c.items()]
DataObj(c) ==
    [i \in DOMAIN c |-> [object_name |-> c[i].name, object_count |-> c[i].count]]

\* Mutant of CountObjects: the general model's entries are put first.
CountObjects_cocoFirst(rf, ry) ==
    IF rf = <<>> /\ ry = <<>>
    THEN OkNoDetections
    ELSE OkArray(DataObj(CountResults(ry, CocoNames))
                    \o DataObj(CountResults(rf, FlowerNames)))

\* lines 89-123, given the two result lists
CountObjects(rf, ry) ==
    IF rf = <<>> /\ ry = <<>>
    THEN OkNoDetections
    ELSE OkArray(DataObj(CountResults(rf, FlowerNames))
                    \o DataObj(CountResults(ry, CocoNames)))

\* ------------------------------------------------------------- exceptions
\* verify_image, lines 151-156: an HTTPException is re-raised, anything else
\* becomes the 500 "internal server error".
VerifyImageExcept(is_http, exc) ==
    IF is_http THEN exc ELSE InternalServerError

\* detect_objects, lines 169-173: an HTTPException is re-raised, anything
\* else becomes the 500 "unexpected error".
DetectObjectsExcept(is_http, exc) ==
    IF is_http THEN exc ELSE UnexpectedError

\* Mutant of ModelsNotLoaded: fails only when both handles are None.
ModelsNotLoaded_both(coco, flower) == coco = None /\ flower = None

\* line 78
ModelsNotLoaded(coco, flower) == coco = None \/ flower = None

\* ------------------------------------------------------------------ Init
FreshLocals ==
    /\ pc = [r \in Requests |-> "idle"]
    /\ file = [r \in Requests |-> NoFile]
    /\ contents = [r \in Requests |-> "unread"]
    /\ decoded = [r \in Requests |-> FALSE]
    /\ img_content = [r \in Requests |-> "unset"]
    /\ calls_flower = [r \in Requests |-> <<>>]
    /\ calls_coco = [r \in Requests |-> <<>>]
    /\ results_flower = [r \in Requests |-> <<>>]
    /\ results_yolo8 = [r \in Requests |-> <<>>]
    /\ response = [r \in Requests |-> NoResponse]

\* The module as imported (lines 13-17), the lifespan not yet entered.
Init ==
    /\ conf_thresh = ConfThreshTenths
    /\ model_flower = None
    /\ model_coco_yolo8 = None
    /\ life = "configure_logging"
    /\ load_error = "none"
    /\ running = 0
    /\ FreshLocals

\* -------------------------------------------------------------- lifespan
\* lines 32-52: the logging set-up, inside the try
ConfigureLogging ==
    /\ life = "configure_logging"
    /\ \/ life' = "load_flower" /\ UNCHANGED load_error
       \/ life' = "except" /\ load_error' = "logging"
    /\ UNCHANGED <<globals, running, locals>>

\* line 54
LoadFlower ==
    /\ life = "load_flower"
    /\ \/ /\ model_flower' = FlowerHandle
          /\ life' = "load_coco"
          /\ UNCHANGED load_error
       \/ /\ life' = "except"
          /\ load_error' = "flower"
          /\ UNCHANGED model_flower
    /\ UNCHANGED <<conf_thresh, model_coco_yolo8, running, locals>>

\* line 55
LoadCoco ==
    /\ life = "load_coco"
    /\ \/ /\ model_coco_yolo8' = CocoHandle
          /\ life' = "log_devices"
          /\ UNCHANGED load_error
       \/ /\ life' = "except"
          /\ load_error' = "coco"
          /\ UNCHANGED model_coco_yolo8
    /\ UNCHANGED <<conf_thresh, model_flower, running, locals>>

\* lines 56-58, then the yield of line 65
LogDevices ==
    /\ life = "log_devices"
    /\ \/ life' = "serving" /\ UNCHANGED load_error
       \/ life' = "except" /\ load_error' = "devices"
    /\ UNCHANGED <<globals, running, locals>>

\* Mutant of HandleLoadError: the handler leaves the handles as they are.
HandleLoadError_keepHandles ==
    /\ life = "except"
    /\ life' = "serving"
    /\ UNCHANGED <<globals, load_error, running, locals>>

\* Mutant of HandleLoadError: the handler resets model_flower only.
HandleLoadError_flowerOnly ==
    /\ life = "except"
    /\ model_flower' = None
    /\ life' = "serving"
    /\ UNCHANGED <<conf_thresh, model_coco_yolo8, load_error, running, locals>>

\* lines 60-63, then the yield of line 65
HandleLoadError ==
    /\ life = "except"
    /\ model_flower' = None
    /\ model_coco_yolo8' = None
    /\ life' = "serving"
    /\ UNCHANGED <<conf_thresh, load_error, running, locals>>

\* line 67: the lifespan resumes after the yield, when the loop is free
ShutdownFlower ==
    /\ life = "serving"
    /\ running = 0
    /\ model_flower' = None
    /\ life' = "shutdown"
    /\ UNCHANGED <<conf_thresh, model_coco_yolo8, load_error, running, locals>>

\* lines 68-69
ShutdownCoco ==
    /\ life = "shutdown"
    /\ model_coco_yolo8' = None
    /\ life' = "stopped"
    /\ UNCHANGED <<conf_thresh, model_flower, load_error, running, locals>>

\* Requests are accepted between the yield and the shutdown; one that is
\* suspended at the read may resume after the shutdown block.
LoopOpen == life \in {"serving", "stopped"}

\* -------------------------------------------------------------- requests
\* What stands for an exception that is not an HTTPException.
AttributeError == HTTPException(0, "AttributeError")
TypeError == HTTPException(0, "TypeError")
InferenceError == HTTPException(0, "inference raised")

\* detect_objects ends: it returned resp or raised it.
Finish(r, resp) ==
    /\ response' = [response EXCEPT ![r] = resp]
    /\ pc' = [pc EXCEPT ![r] = "done"]

\* line 160: a request arrives and its handler starts
Receive(r) ==
    /\ life = "serving"
    /\ running = 0
    /\ pc[r] = "idle"
    /\ \E f \in Uploads : file' = [file EXCEPT ![r] = f]
    /\ pc' = [pc EXCEPT ![r] = "check_type"]
    /\ running' = r
    /\ UNCHANGED <<globals, life, load_error, contents, decoded, img_content,
                   calls_flower, calls_coco, results_flower, results_yolo8, response>>

\* lines 130-131, up to the await of line 134
CheckContentType(r) ==
    /\ running = r
    /\ pc[r] = "check_type"
    /\ LET ct == file[r].content_type IN
       IF ct.is_none
       THEN \* None.startswith: AttributeError, caught at line 154
            /\ Finish(r, DetectObjectsExcept(TRUE, VerifyImageExcept(FALSE, AttributeError)))
            /\ UNCHANGED running
       ELSE IF ~StartsWith(ct.chars, IMAGE_PREFIX)
       THEN /\ Finish(r, DetectObjectsExcept(TRUE, VerifyImageExcept(TRUE, InvalidFileType)))
            /\ UNCHANGED running
       ELSE /\ pc' = [pc EXCEPT ![r] = "read"]
            /\ running' = 0
            /\ UNCHANGED response
    /\ UNCHANGED <<globals, life, load_error, file, contents, decoded, img_content,
                   calls_flower, calls_coco, results_flower, results_yolo8>>

\* line 134: the read completes and the coroutine resumes
ReadFile(r) ==
    /\ LoopOpen
    /\ running = 0
    /\ pc[r] = "read"
    /\ contents' = [contents EXCEPT ![r] = file[r].data]
    /\ pc' = [pc EXCEPT ![r] = "verify"]
    /\ running' = r
    /\ UNCHANGED <<globals, life, load_error, file, decoded, img_content,
                   calls_flower, calls_coco, results_flower, results_yolo8, response>>

\* lines 137-149, and the assignment of line 165
VerifyImage(r) ==
    /\ running = r
    /\ pc[r] = "verify"
    /\ decoded' = [decoded EXCEPT ![r] = TRUE]
    /\ IF contents[r] = "corrupt"
       THEN /\ Finish(r, DetectObjectsExcept(TRUE, VerifyImageExcept(TRUE, CouldNotProcess)))
            /\ UNCHANGED img_content
       ELSE /\ img_content' = [img_content EXCEPT ![r] = contents[r]]
            /\ pc' = [pc EXCEPT ![r] = "check_models"]
            /\ UNCHANGED response
    /\ UNCHANGED <<globals, life, load_error, running, file, contents,
                   calls_flower, calls_coco, results_flower, results_yolo8>>

\* lines 78-81
CheckModels(r) ==
    /\ running = r
    /\ pc[r] = "check_models"
    /\ IF ModelsNotLoaded(model_coco_yolo8, model_flower)
       THEN Finish(r, DetectObjectsExcept(TRUE, ModelsNotLoadedError))
       ELSE /\ pc' = [pc EXCEPT ![r] = "infer_flower"]
            /\ UNCHANGED response
    /\ UNCHANGED <<globals, life, load_error, running, file, contents, decoded,
                   img_content, calls_flower, calls_coco, results_flower, results_yolo8>>

\* Mutant of InferFlower: an exception of the model is swallowed and the
\* request goes on with no results.
InferFlower_swallow(r) ==
    /\ running = r
    /\ pc[r] = "infer_flower"
    /\ \E out \in ModelOutcomes(FlowerNames) :
            /\ calls_flower' = [calls_flower EXCEPT
                    ![r] = Append(@, [conf |-> conf_thresh, raised |-> out.raised])]
            /\ results_flower' = [results_flower EXCEPT ![r] = out.results]
            /\ pc' = [pc EXCEPT ![r] = "infer_coco"]
    /\ UNCHANGED <<globals, life, load_error, running, file, contents, decoded,
                   img_content, calls_coco, results_yolo8, response>>

\* line 85
InferFlower(r) ==
    /\ running = r
    /\ pc[r] = "infer_flower"
    /\ IF model_flower = None
       THEN \* calling None: TypeError, caught at line 172
            /\ Finish(r, DetectObjectsExcept(FALSE, TypeError))
            /\ UNCHANGED <<calls_flower, results_flower>>
       ELSE \E out \in ModelOutcomes(FlowerNames) :
            /\ calls_flower' = [calls_flower EXCEPT
                    ![r] = Append(@, [conf |-> conf_thresh, raised |-> out.raised])]
            /\ IF out.raised
               THEN /\ Finish(r, DetectObjectsExcept(FALSE, InferenceError))
                    /\ UNCHANGED results_flower
               ELSE /\ results_flower' = [results_flower EXCEPT ![r] = out.results]
                    /\ pc' = [pc EXCEPT ![r] = "infer_coco"]
                    /\ UNCHANGED response
    /\ UNCHANGED <<globals, life, load_error, running, file, contents, decoded,
                   img_content, calls_coco, results_yolo8>>

\* Mutant of InferCoco: a model that raised is dropped from the globals.
InferCoco_dropModel(r) ==
    /\ running = r
    /\ pc[r] = "infer_coco"
    /\ \E out \in ModelOutcomes(CocoNames) :
            /\ calls_coco' = [calls_coco EXCEPT
                    ![r] = Append(@, [conf |-> conf_thresh, raised |-> out.raised])]
            /\ IF out.raised
               THEN /\ Finish(r, DetectObjectsExcept(FALSE, InferenceError))
                    /\ model_coco_yolo8' = None
                    /\ UNCHANGED results_yolo8
               ELSE /\ results_yolo8' = [results_yolo8 EXCEPT ![r] = out.results]
                    /\ pc' = [pc EXCEPT ![r] = "count"]
                    /\ UNCHANGED <<response, model_coco_yolo8>>
    /\ UNCHANGED <<conf_thresh, model_flower, life, load_error, running, file,
                   contents, decoded, img_content, calls_flower, results_flower>>

\* line 86
InferCoco(r) ==
    /\ running = r
    /\ pc[r] = "infer_coco"
    /\ IF model_coco_yolo8 = None
       THEN /\ Finish(r, DetectObjectsExcept(FALSE, TypeError))
            /\ UNCHANGED <<calls_coco, results_yolo8>>
       ELSE \E out \in ModelOutcomes(CocoNames) :
            /\ calls_coco' = [calls_coco EXCEPT
                    ![r] = Append(@, [conf |-> conf_thresh, raised |-> out.raised])]
            /\ IF out.raised
               THEN /\ Finish(r, DetectObjectsExcept(FALSE, InferenceError))
                    /\ UNCHANGED results_yolo8
               ELSE /\ results_yolo8' = [results_yolo8 EXCEPT ![r] = out.results]
                    /\ pc' = [pc EXCEPT ![r] = "count"]
                    /\ UNCHANGED response
    /\ UNCHANGED <<globals, life, load_error, running, file, contents, decoded,
                   img_content, calls_flower, results_flower>>

\* lines 89-123, and the return of line 167
CountAndReturn(r) ==
    /\ running = r
    /\ pc[r] = "count"
    /\ Finish(r, CountObjects(results_flower[r], results_yolo8[r]))
    /\ UNCHANGED <<globals, life, load_error, running, file, contents, decoded,
                   img_content, calls_flower, calls_coco, results_flower, results_yolo8>>

\* The response leaves; the handler's locals are gone and the loop is free.
Respond(r) ==
    /\ running = r
    /\ pc[r] = "done"
    /\ pc' = [pc EXCEPT ![r] = "idle"]
    /\ file' = [file EXCEPT ![r] = NoFile]
    /\ contents' = [contents EXCEPT ![r] = "unread"]
    /\ decoded' = [decoded EXCEPT ![r] = FALSE]
    /\ img_content' = [img_content EXCEPT ![r] = "unset"]
    /\ calls_flower' = [calls_flower EXCEPT ![r] = <<>>]
    /\ calls_coco' = [calls_coco EXCEPT ![r] = <<>>]
    /\ results_flower' = [results_flower EXCEPT ![r] = <<>>]
    /\ results_yolo8' = [results_yolo8 EXCEPT ![r] = <<>>]
    /\ response' = [response EXCEPT ![r] = NoResponse]
    /\ running' = 0
    /\ UNCHANGED <<globals, life, load_error>>

RequestStep(r) ==
    \/ Receive(r)
    \/ CheckContentType(r)
    \/ ReadFile(r)
    \/ VerifyImage(r)
    \/ CheckModels(r)
    \/ InferFlower(r)
    \/ InferCoco(r)
    \/ CountAndReturn(r)
    \/ Respond(r)

Next ==
    \/ ConfigureLogging
    \/ LoadFlower
    \/ LoadCoco
    \/ LogDevices
    \/ HandleLoadError
    \/ ShutdownFlower
    \/ ShutdownCoco
    \/ \E r \in Requests : RequestStep(r)

Spec == Init /\ [][Next]_vars

\* detect_objects called with the two module globals in any combination:
\* the function reads them at line 78 whatever set them.
InitUnit ==
    /\ conf_thresh = ConfThreshTenths
    /\ model_flower \in {None, FlowerHandle}
    /\ model_coco_yolo8 \in {None, CocoHandle}
    /\ life = "serving"
    /\ load_error = "none"
    /\ running = 0
    /\ FreshLocals

NextUnit == \E r \in Requests : RequestStep(r)

SpecUnit == InitUnit /\ [][NextUnit]_vars

\* ---------------------------------------------------------------- claims
Done(r) == pc[r] = "done"

\* The class names of a model's raw detections, in the order it reported them.
RawNames(results, names) ==
    IF results = <<>>
    THEN <<>>
    ELSE [i \in 1..Len(results[1]) |-> names[results[1][i] + 1]]

Detections(results) == IF results = <<>> THEN 0 ELSE Len(results[1])

Distinct(seq) == { seq[i] : i \in DOMAIN seq }

FirstIndex(seq, x) ==
    CHOOSE i \in DOMAIN seq : seq[i] = x /\ \A j \in 1..(i - 1) : seq[j] # x

Occurrences(seq, x) == Cardinality({ i \in DOMAIN seq : seq[i] = x })

FlowerRaised(r) == \E i \in DOMAIN calls_flower[r] : calls_flower[r][i].raised

CocoRaised(r) == \E i \in DOMAIN calls_coco[r] : calls_coco[r][i].raised

\* Both models were called and both returned.
BothReturned(r) ==
    /\ Len(calls_flower[r]) = 1 /\ ~FlowerRaised(r)
    /\ Len(calls_coco[r]) = 1 /\ ~CocoRaised(r)

\* verify_image returned the bytes to detect_objects.
Validated(r) == img_content[r] # "unset"

DeclaredImage(f) ==
    /\ ~f.content_type.is_none
    /\ StartsWith(f.content_type.chars, IMAGE_PREFIX)

\* C1: a request that passed validation with both models loaded and got zero
\* detections from both models returns {"objects": "No detections found."},
\* never {"objects": []}.
C1_NoDetectionsShape ==
    \A r \in Requests :
        ( /\ Done(r)
          /\ Validated(r)
          /\ BothReturned(r)
          /\ Detections(results_flower[r]) = 0
          /\ Detections(results_yolo8[r]) = 0 )
        => /\ response[r] = OkNoDetections
           /\ ~(response[r].body = "array" /\ response[r].objects = <<>>)

\* seg lists exactly the names of raw, each before every name first seen later.
InFirstSeenOrder(seg, raw) ==
    /\ { seg[i].object_name : i \in DOMAIN seg } = Distinct(raw)
    /\ \A i, j \in DOMAIN seg :
          i < j => FirstIndex(raw, seg[i].object_name)
                        < FirstIndex(raw, seg[j].object_name)

\* C2: in an array response every entry of model_flower precedes every entry
\* of model_coco_yolo8, and each model's entries are in the order in which
\* the model's raw detections first showed each class.
C2_SegmentOrder ==
    \A r \in Requests :
        (Done(r) /\ response[r].body = "array") =>
            LET objs == response[r].objects
                rawA == RawNames(results_flower[r], FlowerNames)
                rawB == RawNames(results_yolo8[r], CocoNames)
                k == Cardinality(Distinct(rawA))
            IN  /\ Len(objs) >= k
                /\ InFirstSeenOrder(SubSeq(objs, 1, k), rawA)
                /\ InFirstSeenOrder(SubSeq(objs, k + 1, Len(objs)), rawB)

\* An array response whose flower classes were first seen in the order
\* vase, rose (neither by name nor by count), followed by coco entries.
C2_Witness ==
    \E r \in Requests :
        /\ Done(r)
        /\ response[r].body = "array"
        /\ results_flower[r] = << <<1, 0, 0>> >>
        /\ results_yolo8[r] = << <<1, 0, 1>> >>
        /\ Len(response[r].objects) = 4
        /\ response[r].objects[1].object_name = "vase"
        /\ response[r].objects[3].object_name = "vase"

\* C3: a request whose validation failed ends with a 400 and called no model.
C3_ValidationFailure400 ==
    \A r \in Requests :
        (Done(r) /\ ~Validated(r)) =>
            /\ response[r].status = 400
            /\ calls_flower[r] = <<>>
            /\ calls_coco[r] = <<>>

\* C4 as stated: after a failed load every request, whatever its upload, ends
\* with the 500 "models are not loaded".
C4_AlwaysNotLoaded ==
    \A r \in Requests :
        (load_error # "none" /\ Done(r)) => response[r] = ModelsNotLoadedError

\* C4 amended: after a failed load every request whose upload passes
\* verify_image ends with the 500 "models are not loaded", one whose upload
\* does not ends with verify_image's own error, and none succeeds or reaches
\* a model.
C4_NotLoadedOnceValidated ==
    \A r \in Requests :
        (load_error # "none" /\ Done(r)) =>
            /\ Validated(r) => response[r] = ModelsNotLoadedError
            /\ ~Validated(r) =>
                  response[r] \in {InvalidFileType, CouldNotProcess, InternalServerError}
            /\ response[r].status # 200
            /\ calls_flower[r] = <<>>
            /\ calls_coco[r] = <<>>

C4_Witness ==
    \E r \in Requests :
        /\ load_error # "none"
        /\ life = "serving"
        /\ Done(r)
        /\ Validated(r)
        /\ response[r] = ModelsNotLoadedError

\* C5: once detect_and_count_objects is entered with either handle None, the
\* request ends with the 500 "models are not loaded" and no model is called.
C5_FailFast ==
    \A r \in Requests :
        (Validated(r) /\ (model_flower = None \/ model_coco_yolo8 = None)) =>
            /\ calls_flower[r] = <<>>
            /\ calls_coco[r] = <<>>
            /\ pc[r] \in {"check_models", "done"}
            /\ Done(r) => response[r] = ModelsNotLoadedError

\* The custom model is loaded, the general one is not, and the request failed.
C5_Witness ==
    \E r \in Requests :
        /\ Done(r)
        /\ Validated(r)
        /\ model_flower = FlowerHandle
        /\ model_coco_yolo8 = None
        /\ response[r] = ModelsNotLoadedError

\* C6: an upload whose declared content type does not begin with "image/",
\* a missing one included, ends with the 400 "invalid file type", its bytes
\* neither read nor decoded.
C6_InvalidContentType400 ==
    \A r \in Requests :
        (Done(r) /\ ~DeclaredImage(file[r])) =>
            /\ response[r] = InvalidFileType
            /\ contents[r] = "unread"
            /\ ~decoded[r]

\* seg is the histogram of raw: one entry per name, counting its occurrences.
IsHistogram(seg, raw) ==
    /\ Len(seg) = Cardinality(Distinct(raw))
    /\ \A i, j \in DOMAIN seg :
          i # j => seg[i].object_name # seg[j].object_name
    /\ \A n \in Distinct(raw) : \E i \in DOMAIN seg : seg[i].object_name = n
    /\ \A i \in DOMAIN seg :
          /\ seg[i].object_count >= 1
          /\ seg[i].object_count = Occurrences(raw, seg[i].object_name)

\* C7: in an array response each model's segment is that model's own
\* histogram; a model without detections adds no entry; a name both models
\* detected has two entries, each with its own model's count.
C7_Histogram ==
    \A r \in Requests :
        (Done(r) /\ response[r].body = "array") =>
            LET objs == response[r].objects
                rawA == RawNames(results_flower[r], FlowerNames)
                rawB == RawNames(results_yolo8[r], CocoNames)
                k == Cardinality(Distinct(rawA))
            IN  /\ Len(objs) = k + Cardinality(Distinct(rawB))
                /\ IsHistogram(SubSeq(objs, 1, k), rawA)
                /\ IsHistogram(SubSeq(objs, k + 1, Len(objs)), rawB)
                /\ rawA = <<>> => k = 0
                /\ rawB = <<>> => Len(objs) = k

\* Both models detected "vase", twice and once: two entries, counts apart.
C7_Witness ==
    \E r \in Requests :
        /\ Done(r)
        /\ response[r].body = "array"
        /\ \E i, j \in DOMAIN response[r].objects :
              /\ i < j
              /\ response[r].objects[i].object_name = "vase"
              /\ response[r].objects[j].object_name = "vase"
              /\ response[r].objects[i].object_count = 2
              /\ response[r].objects[j].object_count = 1

\* C8: while requests can be served the two handles are both loaded or both
\* None, both None when any step of the load failed; after the shutdown both
\* are None.
C8_HandlesTogether ==
    /\ life = "serving" =>
          \/ model_flower = None /\ model_coco_yolo8 = None
          \/ model_flower = FlowerHandle /\ model_coco_yolo8 = CocoHandle
    /\ (life = "serving" /\ load_error # "none") =>
          model_flower = None /\ model_coco_yolo8 = None
    /\ life = "stopped" => model_flower = None /\ model_coco_yolo8 = None
    /\ load_error # "none" => life \in {"except", "serving", "shutdown", "stopped"}

\* The device logging failed after both models had loaded; requests are served.
C8_Witness ==
    /\ load_error = "devices"
    /\ life = "serving"
    /\ model_flower = None
    /\ model_coco_yolo8 = None
    /\ \E r \in Requests : Done(r)

\* C9: a model that raises ends the request with a 500; each model is called
\* at most once per request, and the second not at all when the first raised.
C9_InferenceFailure ==
    \A r \in Requests :
        /\ Len(calls_flower[r]) <= 1
        /\ Len(calls_coco[r]) <= 1
        /\ FlowerRaised(r) =>
              /\ Done(r)
              /\ response[r].status = 500
              /\ calls_coco[r] = <<>>
        /\ CocoRaised(r) =>
              /\ Done(r)
              /\ response[r].status = 500

C9_Witness ==
    \E r \in Requests :
        /\ Done(r)
        /\ Validated(r)
        /\ FlowerRaised(r)
        /\ response[r] = UnexpectedError

\* What one request yields when nothing else runs: a function of its upload,
\* the two handles and what the models did on its image.
Alone(f, flower, coco, cf, rf, cc, ry) ==
    IF f.content_type.is_none THEN InternalServerError
    ELSE IF ~StartsWith(f.content_type.chars, IMAGE_PREFIX) THEN InvalidFileType
    ELSE IF f.data = "corrupt" THEN CouldNotProcess
    ELSE IF flower = None \/ coco = None THEN ModelsNotLoadedError
    ELSE IF cf # <<>> /\ cf[1].raised THEN UnexpectedError
    ELSE IF cc # <<>> /\ cc[1].raised THEN UnexpectedError
    ELSE CountObjects(rf, ry)

LocalsOf(r) ==
    <<file[r], contents[r], decoded[r], img_content[r], calls_flower[r],
      calls_coco[r], results_flower[r], results_yolo8[r], response[r]>>

\* C10: a step of a request writes neither model handle nor conf_thresh and
\* no other request's locals, and the response a request ends with is the one
\* it would have ended with alone.
C10_Isolation ==
    [][ /\ pc' # pc => UNCHANGED globals
        /\ \A r \in Requests :
              /\ pc'[r] = pc[r] => LocalsOf(r)' = LocalsOf(r)
              /\ (pc[r] # "done" /\ pc'[r] = "done") =>
                    response'[r] = Alone(file[r], model_flower, model_coco_yolo8,
                                         calls_flower'[r], results_flower'[r],
                                         calls_coco'[r], results_yolo8'[r])
      ]_vars

\* One request has its response while another is suspended at the read.
C10_Witness ==
    \E r, q \in Requests :
        /\ r # q
        /\ Done(r)
        /\ response[r].body = "array"
        /\ response[r].objects # <<>>
        /\ pc[q] = "read"

====
